---- MODULE Spec2Model ----
(***************************************************************************)
(* numalign: NUMA distance table (pkg/topologyinfo/numa/distances), PCI    *)
(* device discovery (pcidev) and the fake sysfs tree builder               *)
(* (pkg/fakesysfs), modelled as three state machines over one set of       *)
(* variables: SpecDistances, SpecPCI and SpecFakeSysfs.                    *)
(*                                                                         *)
(* Strings are sequences of one-character strings, so that splitting,      *)
(* trimming and number parsing are computed character by character.        *)
(***************************************************************************)
EXTENDS Integers, Sequences, FiniteSets, TLC

VARIABLES
    online,       \* numa.NewNodesFromSysFS: [err, Online] (external collaborator)
    distanceFile, \* node id -> [err, data]: what sysNode.ReadFile("distance") gives
    dist,         \* what NewDistancesFromSysfs returned: [called, d, err]
    between,      \* what the last BetweenNodes call did: [called, from, to, res]
    devDirErr,    \* ioutil.ReadDir of bus/pci/devices fails
    devices,      \* bus/pci/devices: its entries in listing order, each its files
    edits,        \* attribute files changed so far
    pci,          \* what NewPCIDevices returned: [called, isNil, Items, err]
    perNUMA,      \* what PerNUMA returned on it: [called, groups]
    tree,         \* the nodes of a FakeSysfs tree, the root first: [name, attrs, items]
    baseExists,   \* the base directory exists when Setup runs
    setup         \* what Setup did: [called, err, log, dirs, files, cwd]

distVars == <<online, distanceFile, dist, between>>
pciVars == <<devDirErr, devices, edits, pci, perNUMA>>
fsVars == <<tree, baseExists, setup>>
vars == <<distVars, pciVars, fsVars>>

(***************************************************************************)
(* Bounds                                                                  *)
(***************************************************************************)
MaxNodeID == 2
MaxLen == 3
MaxDevices == 4
MaxEdits == 2
MaxTreeNodes == 4
MaxFaultAt == 3

NodeIDs == 0..MaxNodeID
QueryIDs == (-1)..(MaxNodeID + 1)

(***************************************************************************)
(* strings, strconv                                                        *)
(***************************************************************************)
Min(a, b) == IF a < b THEN a ELSE b

\* All strings of at most n characters over the alphabet.
StringsUpTo(alphabet, n) == UNION {[1..k -> alphabet] : k \in 0..n}

IsSpace(c) == c \in {" ", "\n", "\t", "\r"}

RECURSIVE TrimLeft(_)
TrimLeft(s) ==
    IF s # <<>> /\ IsSpace(Head(s)) THEN TrimLeft(Tail(s)) ELSE s

RECURSIVE TrimRight(_)
TrimRight(s) ==
    IF s # <<>> /\ IsSpace(s[Len(s)]) THEN TrimRight(SubSeq(s, 1, Len(s) - 1)) ELSE s

TrimSpace(s) == TrimRight(TrimLeft(s))

\* strings.Split(s, sep) for a one-character separator: the pieces between
\* the separators, empty pieces included; a string without separator is the
\* single piece.
RECURSIVE Split(_, _)
Split(s, sep) ==
    IF \A i \in 1..Len(s) : s[i] # sep
    THEN <<s>>
    ELSE LET i == CHOOSE k \in 1..Len(s) :
                      /\ s[k] = sep
                      /\ \A j \in 1..(k - 1) : s[j] # sep
         IN  <<SubSeq(s, 1, i - 1)>> \o Split(SubSeq(s, i + 1, Len(s)), sep)

Digits == <<"0", "1", "2", "3", "4", "5", "6", "7", "8", "9",
            "a", "b", "c", "d", "e", "f">>
UpperDigits == <<"0", "1", "2", "3", "4", "5", "6", "7", "8", "9",
                 "A", "B", "C", "D", "E", "F">>

IsDigit(c, base) == \E i \in 1..base : c \in {Digits[i], UpperDigits[i]}

DigitVal(c) == (CHOOSE i \in 1..16 : c \in {Digits[i], UpperDigits[i]}) - 1

\* TLC's integers are 32 bits wide.  strconv.Atoi parses an int, which is 32
\* bits wide on 32-bit builds (strconv.IntSize); the model evaluates that
\* build exactly.  A 64-bit parse is evaluated with the same limits: it is
\* exact for every value below 2^31 and for every string of more than 16
\* digits, which is all the model feeds it.
BitLimit(bitSize) == Min(bitSize, 32)
MaxIntOf(bitSize) == (2 ^ (BitLimit(bitSize) - 2) - 1) * 2 + 1
MinIntOf(bitSize) == -MaxIntOf(bitSize) - 1

NoErr == "nil"
ErrSyntax == "invalid syntax"
ErrRange == "value out of range"

\* The digit loop of strconv.ParseUint/ParseInt, left to right, with the sign
\* applied as it goes: the first character that is no digit of the base ends
\* it with a syntax error and 0, the first digit that takes the value out of
\* range ends it with a range error and the nearest bound.
RECURSIVE parseDigits(_, _, _, _, _)
parseDigits(s, base, neg, bitSize, n) ==
    IF s = <<>> THEN [val |-> n, err |-> NoErr]
    ELSE IF ~IsDigit(Head(s), base) THEN [val |-> 0, err |-> ErrSyntax]
    ELSE LET d == DigitVal(Head(s))
         IN  IF neg
             THEN IF n < (MinIntOf(bitSize) + d + base - 1) \div base
                  THEN [val |-> MinIntOf(bitSize), err |-> ErrRange]
                  ELSE parseDigits(Tail(s), base, neg, bitSize, n * base - d)
             ELSE IF n > (MaxIntOf(bitSize) - d) \div base
                  THEN [val |-> MaxIntOf(bitSize), err |-> ErrRange]
                  ELSE parseDigits(Tail(s), base, neg, bitSize, n * base + d)

\* strconv.ParseInt(s, base, bitSize) for base 10, 16, 8, 2 or 0.  With base
\* 0 a leading "0" chooses the base: 0b, 0o and 0x followed by at least one
\* more character give 2, 8 and 16, any other leading 0 gives 8 and is
\* dropped (so "0" is 0).  The underscores base 0 allows between digits are
\* left out.
ParseInt(s, base, bitSize) ==
    LET neg == s # <<>> /\ Head(s) = "-"
        body == IF s # <<>> /\ Head(s) \in {"+", "-"} THEN Tail(s) ELSE s
        letter == IF Len(body) >= 3 THEN body[2] ELSE ""
        b == IF base # 0 THEN base
             ELSE IF body = <<>> \/ body[1] # "0" THEN 10
             ELSE IF letter \in {"b", "B"} THEN 2
             ELSE IF letter \in {"o", "O"} THEN 8
             ELSE IF letter \in {"x", "X"} THEN 16
             ELSE 8
        digits == IF base # 0 \/ body = <<>> \/ body[1] # "0" THEN body
                  ELSE IF letter \in {"b", "B", "o", "O", "x", "X"}
                  THEN Tail(Tail(body))
                  ELSE Tail(body)
    IN  IF body = <<>> THEN [val |-> 0, err |-> ErrSyntax]
        ELSE parseDigits(digits, b, neg, bitSize, 0)

\* strconv.Atoi(s) == ParseInt(s, 10, 0): bitSize 0 is the width of int.
Atoi(s) == ParseInt(s, 10, 32)

(***************************************************************************)
(* pkg/topologyinfo/numa/distances                                         *)
(***************************************************************************)
distanceSeparator == " "

NoError == [kind |-> NoErr, found |-> 0, expected |-> 0]
CountError(found, expected) ==
    [kind |-> "count mismatch", found |-> found, expected |-> expected]
OtherError(kind) == [kind |-> kind, found |-> 0, expected |-> 0]

\* nodeDistancesFromString(numaNodes, data): [values, err].  On a parse
\* failure values holds what was parsed so far, the rest zero.
RECURSIVE atoiAll(_, _)
atoiAll(dists, acc) ==
    IF dists = <<>> THEN [values |-> acc, err |-> NoError]
    ELSE LET r == Atoi(Head(dists))
         IN  IF r.err # NoErr
             THEN [values |-> acc \o [i \in 1..Len(dists) |-> 0],
                   err |-> OtherError(r.err)]
             ELSE atoiAll(Tail(dists), Append(acc, r.val))

nodeDistancesAtLeast(numaNodes, data) ==
    LET dists == Split(data, distanceSeparator)
    IN  IF Len(dists) < numaNodes
        THEN [values |-> <<>>, err |-> CountError(Len(dists), numaNodes)]
        ELSE atoiAll(dists, <<>>)

nodeDistancesFromString(numaNodes, data) ==
    LET dists == Split(data, distanceSeparator)
    IN  IF Len(dists) # numaNodes
        THEN [values |-> <<>>, err |-> CountError(Len(dists), numaNodes)]
        ELSE atoiAll(dists, <<>>)

NilDistances == [isNil |-> TRUE, onlineNodes |-> {}, byNode |-> <<>>]

\* The loop of NewDistancesFromSysfs from the i-th online node on, d being
\* the Distances filled so far: [d, err].
RECURSIVE distancesLoop(_, _, _, _)
distancesLoop(nodes, files, i, d) ==
    IF i > Len(nodes) THEN [d |-> d, err |-> NoError]
    ELSE LET nodeID == nodes[i]
             d1 == [d EXCEPT !.onlineNodes = @ \cup {nodeID}]
             distData == files[nodeID]
             nodeDist == nodeDistancesFromString(Len(nodes), distData.data)
         IN  IF distData.err
             THEN [d |-> NilDistances, err |-> OtherError("read")]
             ELSE IF nodeDist.err # NoError
             THEN [d |-> NilDistances, err |-> nodeDist.err]
             ELSE distancesLoop(nodes, files, i + 1,
                      [d1 EXCEPT !.byNode = Append(@, nodeDist.values)])

NewDistancesFromSysfsResult(nodes, files) ==
    IF nodes.err
    THEN [d |-> NilDistances, err |-> OtherError("nodes")]
    ELSE distancesLoop(nodes.Online, files, 1,
             [isNil |-> FALSE, onlineNodes |-> {}, byNode |-> <<>>])

\* Distances.BetweenNodes(from, to): kind is "ok" (val returned with a nil
\* error), "error" (-1 and an error naming node) or "panic" (index out of
\* range: byNode and values are indexed by node id).
BetweenNodesToFirst(d, from, to) ==
    IF to \notin d.onlineNodes
    THEN [kind |-> "error", val |-> -1, node |-> to]
    ELSE IF from \notin d.onlineNodes
    THEN [kind |-> "error", val |-> -1, node |-> from]
    ELSE IF from < 0 \/ from >= Len(d.byNode)
    THEN [kind |-> "panic", val |-> 0, node |-> from]
    ELSE IF to < 0 \/ to >= Len(d.byNode[from + 1])
    THEN [kind |-> "panic", val |-> 0, node |-> to]
    ELSE [kind |-> "ok", val |-> d.byNode[from + 1][to + 1], node |-> 0]

BetweenNodesResult(d, from, to) ==
    IF from \notin d.onlineNodes
    THEN [kind |-> "error", val |-> -1, node |-> from]
    ELSE IF to \notin d.onlineNodes
    THEN [kind |-> "error", val |-> -1, node |-> to]
    ELSE IF from < 0 \/ from >= Len(d.byNode)
    THEN [kind |-> "panic", val |-> 0, node |-> from]
    ELSE IF to < 0 \/ to >= Len(d.byNode[from + 1])
    THEN [kind |-> "panic", val |-> 0, node |-> to]
    ELSE [kind |-> "ok", val |-> d.byNode[from + 1][to + 1], node |-> 0]

DistanceAlphabet == {"1", "2", " ", "x"}
DistanceContents == StringsUpTo(DistanceAlphabet, MaxLen)
DistanceFiles ==
    {[err |-> TRUE, data |-> <<>>]}
        \cup {[err |-> FALSE, data |-> s] : s \in DistanceContents}

\* The online nodes as the node source lists them: ascending ids, none twice.
OnlineLists ==
    {<<>>} \cup {<<a>> : a \in NodeIDs}
           \cup {p \in NodeIDs \X NodeIDs : p[1] < p[2]}

NoneCalled == [called |-> FALSE]

DistInit ==
    /\ \/ online = [err |-> TRUE, Online |-> <<>>] /\ distanceFile = <<>>
       \/ \E l \in OnlineLists :
            /\ online = [err |-> FALSE, Online |-> l]
            /\ distanceFile \in [{l[i] : i \in 1..Len(l)} -> DistanceFiles]
    /\ dist = NoneCalled
    /\ between = NoneCalled

NewDistancesFromSysfs ==
    /\ ~dist.called
    /\ LET r == NewDistancesFromSysfsResult(online, distanceFile)
       IN  dist' = [called |-> TRUE, d |-> r.d, err |-> r.err]
    /\ UNCHANGED <<online, distanceFile, between, pciVars, fsVars>>

BetweenNodes ==
    /\ dist.called
    /\ ~dist.d.isNil
    /\ \E from, to \in QueryIDs :
         between' = [called |-> TRUE, from |-> from, to |-> to,
                     res |-> BetweenNodesResult(dist.d, from, to)]
    /\ UNCHANGED <<online, distanceFile, dist, pciVars, fsVars>>

DistNext == NewDistancesFromSysfs \/ BetweenNodes

(***************************************************************************)
(* pcidev                                                                  *)
(***************************************************************************)
PathBusPCIDevices == <<"b", "u", "s", "/", "p", "c", "i", "/", "d", "e", "v", "i", "c", "e", "s", "/">>
NUMANodeUnknown == -1

\* The state of one path of a device directory: kind is "absent", "file"
\* (data its content), "symlink" (data its target, which exists and is a
\* directory), "dangling" (a symbolic link whose target does not exist) or
\* "loop" (a symbolic link onto itself).
Absent == [kind |-> "absent", data |-> <<>>]
File(content) == [kind |-> "file", data |-> content]
Symlink(kind, target) == [kind |-> kind, data |-> target]

\* os.Stat follows symbolic links.
Stat(f) ==
    CASE f.kind \in {"absent", "dangling"} -> "ENOENT"
      [] f.kind = "loop" -> "ELOOP"
      [] OTHER -> NoErr

IsNotExist(err) == err = "ENOENT"

\* ioutil.ReadFile: [data, err].
ReadFile(f) ==
    CASE f.kind = "file" -> [data |-> f.data, err |-> NoErr]
      [] f.kind = "symlink" -> [data |-> <<>>, err |-> "EISDIR"]
      [] OTHER -> [data |-> <<>>, err |-> Stat(f)]

\* os.Readlink: [dest, err].
Readlink(f) ==
    CASE f.kind \in {"symlink", "dangling", "loop"} -> [dest |-> f.data, err |-> NoErr]
      [] f.kind = "absent" -> [dest |-> <<>>, err |-> "ENOENT"]
      [] OTHER -> [dest |-> <<>>, err |-> "EINVAL"]

\* filepath.Base: the last element of the path, trailing slashes removed;
\* "." for the empty path, "/" for a path of slashes only.
RECURSIVE stripSlashes(_)
stripSlashes(path) ==
    IF path # <<>> /\ path[Len(path)] = "/"
    THEN stripSlashes(SubSeq(path, 1, Len(path) - 1))
    ELSE path

Base(path) ==
    IF path = <<>> THEN <<".">>
    ELSE LET q == stripSlashes(path)
             elems == Split(q, "/")
         IN  IF q = <<>> THEN <<"/">> ELSE elems[Len(elems)]

\* readInt(path): [val, err].
readInt(f) ==
    LET content == ReadFile(f)
    IN  IF content.err # NoErr
        THEN [val |-> 0, err |-> content.err]
        ELSE Atoi(TrimSpace(content.data))

\* readHexInt64(path): [val, err].
readHexInt64(f) ==
    LET content == ReadFile(f)
    IN  IF content.err # NoErr
        THEN [val |-> 0, err |-> content.err]
        ELSE ParseInt(TrimSpace(content.data), 0, 64)

PCIError(kind, address, file) == [kind |-> kind, address |-> address, file |-> file]
PCINoError == PCIError(NoErr, <<>>, "")

\* One pass of the loop of NewPCIDevices over a directory entry:
\* [err, devInfo].
readEntry(entry) ==
    LET statNumvfs == Stat(entry.sriov_numvfs)
        isPhysFn == statNumvfs = NoErr
        numVfs == IF isPhysFn THEN readInt(entry.sriov_numvfs).val ELSE 0
        statPhysFn == Stat(entry.physfn)
        isVFn == statPhysFn = NoErr
        link == Readlink(entry.physfn)
        parentFn == IF isVFn /\ link.err = NoErr THEN Base(link.dest) ELSE <<>>
        nodeNum == readInt(entry.numa_node)
        devClass == readHexInt64(entry.class)
        vendor == readHexInt64(entry.vendor)
        device == readHexInt64(entry.device)
        devInfo == [IsPhysFn |-> isPhysFn,
                    NumVFS |-> numVfs,
                    IsVFn |-> isVFn,
                    ParentFn |-> parentFn,
                    address |-> entry.name,
                    numaNode |-> nodeNum.val,
                    devClass |-> devClass.val \div 256,
                    vendor |-> vendor.val,
                    device |-> device.val,
                    sysfsPath |-> PathBusPCIDevices \o entry.name]
        fail(kind, file) == [err |-> PCIError(kind, entry.name, file), devInfo |-> devInfo]
    IN  IF ~isPhysFn /\ ~IsNotExist(statNumvfs) THEN fail(statNumvfs, "sriov_numvfs")
        ELSE IF ~isVFn /\ ~IsNotExist(statPhysFn) THEN fail(statPhysFn, "physfn")
        ELSE IF devClass.err # NoErr THEN fail(devClass.err, "class")
        ELSE IF vendor.err # NoErr THEN fail(vendor.err, "vendor")
        ELSE IF device.err # NoErr THEN fail(device.err, "device")
        ELSE [err |-> PCINoError, devInfo |-> devInfo]

NilPCIDevices == [isNil |-> TRUE, Items |-> <<>>]

\* A loop that skips an entry it cannot read instead of giving up.
RECURSIVE pciLoopSkipping(_, _, _)
pciLoopSkipping(entries, i, allPCIDevs) ==
    IF i > Len(entries)
    THEN [pd |-> [isNil |-> FALSE, Items |-> allPCIDevs], err |-> PCINoError]
    ELSE LET r == readEntry(entries[i])
         IN  IF r.err # PCINoError
             THEN pciLoopSkipping(entries, i + 1, allPCIDevs)
             ELSE pciLoopSkipping(entries, i + 1, Append(allPCIDevs, r.devInfo))

\* The loop of NewPCIDevices from the i-th entry on: [pd, err].
RECURSIVE pciLoop(_, _, _)
pciLoop(entries, i, allPCIDevs) ==
    IF i > Len(entries)
    THEN [pd |-> [isNil |-> FALSE, Items |-> allPCIDevs], err |-> PCINoError]
    ELSE LET r == readEntry(entries[i])
         IN  IF r.err # PCINoError
             THEN [pd |-> NilPCIDevices, err |-> r.err]
             ELSE pciLoop(entries, i + 1, Append(allPCIDevs, r.devInfo))

NewPCIDevicesResult(dirErr, entries) ==
    IF dirErr
    THEN [pd |-> NilPCIDevices, err |-> PCIError("ENOENT", <<>>, "")]
    ELSE pciLoop(entries, 1, <<>>)

\* A PerNUMA whose map entry is replaced by the device instead of grown.
PerNUMAOverwriting(Items) ==
    [n \in {Items[i].numaNode : i \in 1..Len(Items)} |->
        <<Items[CHOOSE i \in 1..Len(Items) :
                    /\ Items[i].numaNode = n
                    /\ \A j \in (i + 1)..Len(Items) : Items[j].numaNode # n]>>]

\* PCIDevices.PerNUMA: the map is a function on its keys.
RECURSIVE perNUMALoop(_, _, _)
perNUMALoop(Items, i, numaNodePCIDevs) ==
    IF i > Len(Items) THEN numaNodePCIDevs
    ELSE LET devInfo == Items[i]
             nodeNum == devInfo.numaNode
             pciDevs == IF nodeNum \in DOMAIN numaNodePCIDevs
                        THEN numaNodePCIDevs[nodeNum]
                        ELSE <<>>
         IN  perNUMALoop(Items, i + 1,
                 [n \in DOMAIN numaNodePCIDevs \cup {nodeNum} |->
                     IF n = nodeNum THEN Append(pciDevs, devInfo)
                     ELSE numaNodePCIDevs[n]])

PerNUMAResult(Items) == perNUMALoop(Items, 1, <<>>)

\* The sysfs tree the machine (or a fake sysfs) presents.
Addresses == <<<<"0", "0", "0", "0", ":", "0", "0", ":", "0", "1", ".", "0">>,
               <<"0", "0", "0", "0", ":", "0", "0", ":", "0", "1", ".", "1">>,
               <<"0", "0", "0", "0", ":", "0", "0", ":", "0", "2", ".", "0">>,
               <<"0", "0", "0", "0", ":", "0", "0", ":", "0", "3", ".", "0">>,
               <<"0", "0", "0", "0", ":", "0", "0", ":", "0", "4", ".", "0">>,
               <<"0", "0", "0", "0", ":", "0", "0", ":", "0", "5", ".", "0">>>>

GoneAddress == <<"0", "0", "0", "0", ":", "0", "0", ":", "0", "9", ".", "0">>

BigNumber == <<"9", "9", "9", "9", "9", "9", "9", "9", "9", "9", "9", "9", "9", "9", "9", "9", "9", "9", "9", "9">>

PlainDevice(name) ==
    [name |-> name,
     sriov_numvfs |-> Absent,
     physfn |-> Absent,
     numa_node |-> File(<<"0", "\n">>),
     class |-> File(<<"0", "x", "0", "2", "0", "0", "0", "0", "\n">>),
     vendor |-> File(<<"0", "x", "8", "0", "8", "6", "\n">>),
     device |-> File(<<"0", "x", "1", "5", "2", "1", "\n">>)]

AttrNames == {"sriov_numvfs", "physfn", "numa_node", "class", "vendor", "device"}

AttrStates(attr) ==
    CASE attr = "sriov_numvfs" ->
             {Absent, File(<<"4", "\n">>), File(<<"x">>), File(BigNumber),
              Symlink("loop", <<"s", "r", "i", "o", "v", "_", "n", "u", "m", "v", "f", "s">>)}
      [] attr = "physfn" ->
             {Absent, Symlink("symlink", <<".", ".", "/">> \o Addresses[1]),
              Symlink("dangling", <<".", ".", "/">> \o GoneAddress),
              Symlink("loop", <<"p", "h", "y", "s", "f", "n">>), File(<<>>)}
      [] attr = "numa_node" ->
             {Absent, File(<<"0", "\n">>), File(<<"-", "1", "\n">>), File(<<"1", "\n">>), File(<<"x">>)}
      [] attr = "class" -> {Absent, File(<<"0", "x", "0", "2", "0", "0", "0", "0", "\n">>), File(<<"z", "z">>)}
      [] attr = "vendor" -> {Absent, File(<<"0", "x", "8", "0", "8", "6", "\n">>)}
      [] attr = "device" -> {File(<<>>), File(<<"0", "x", "1", "5", "2", "1", "\n">>)}

PCIInit ==
    /\ devDirErr \in BOOLEAN
    /\ devices = <<>>
    /\ edits = 0
    /\ pci = NoneCalled
    /\ perNUMA = NoneCalled

\* A device directory appears, with the files of a plain device.
AddDevice ==
    /\ ~devDirErr
    /\ ~pci.called
    /\ Len(devices) < MaxDevices
    /\ devices' = Append(devices, PlainDevice(Addresses[Len(devices) + 1]))
    /\ UNCHANGED <<devDirErr, edits, pci, perNUMA, distVars, fsVars>>

\* One attribute file of a device is created, removed or rewritten.
SetDeviceFile ==
    /\ ~pci.called
    /\ edits < MaxEdits
    /\ \E i \in 1..Len(devices), attr \in AttrNames :
         \E st \in AttrStates(attr) :
            /\ st # devices[i][attr]
            /\ devices' = [devices EXCEPT ![i][attr] = st]
    /\ edits' = edits + 1
    /\ UNCHANGED <<devDirErr, pci, perNUMA, distVars, fsVars>>

NewPCIDevices ==
    /\ ~pci.called
    /\ LET r == NewPCIDevicesResult(devDirErr, devices)
       IN  pci' = [called |-> TRUE, isNil |-> r.pd.isNil, Items |-> r.pd.Items,
                   err |-> r.err]
    /\ UNCHANGED <<devDirErr, devices, edits, perNUMA, distVars, fsVars>>

PerNUMA ==
    /\ pci.called
    /\ ~pci.isNil
    /\ ~perNUMA.called
    /\ perNUMA' = [called |-> TRUE, groups |-> PerNUMAResult(pci.Items)]
    /\ UNCHANGED <<devDirErr, devices, edits, pci, distVars, fsVars>>

PCINext == AddDevice \/ SetDeviceFile \/ NewPCIDevices \/ PerNUMA

(***************************************************************************)
(* pkg/fakesysfs                                                           *)
(*                                                                         *)
(* A directory is the sequence of the names on its absolute path (<<>> is  *)
(* "/"); names given to the system calls are strings, resolved against the *)
(* working directory as the kernel does.  The file system and the process  *)
(* state Setup works on is fs = [dirs, files, cwd, log, ops]: log is every *)
(* os.Mkdir and ioutil.WriteFile made, in order, and ops their number.     *)
(***************************************************************************)
RootName == <<"_">>
BaseDir == <<<<"b", "a", "s", "e">>>>
OldWd == <<<<"w", "o", "r", "k">>>>

DotDot == <<".", ".">>
Dot == <<".">>

Parent(dir) == IF dir = <<>> THEN <<>> ELSE SubSeq(dir, 1, Len(dir) - 1)

IsUnder(dir, path) ==
    Len(path) > Len(dir) /\ SubSeq(path, 1, Len(dir)) = dir

\* The elements of a path name, empty ones (doubled and trailing slashes)
\* dropped.
Elements(name) == SelectSeq(Split(name, "/"), LAMBDA e : e # <<>>)

StartDir(fs, name) == IF name # <<>> /\ Head(name) = "/" THEN <<>> ELSE fs.cwd

\* Path lookup from directory cur through elems, each of which must lead to
\* an existing directory: [err, dir].
RECURSIVE walk(_, _, _)
walk(fs, cur, elems) ==
    IF elems = <<>> THEN [err |-> NoErr, dir |-> cur]
    ELSE IF Head(elems) = Dot THEN walk(fs, cur, Tail(elems))
    ELSE IF Head(elems) = DotDot THEN walk(fs, Parent(cur), Tail(elems))
    ELSE IF Append(cur, Head(elems)) \in fs.dirs
    THEN walk(fs, Append(cur, Head(elems)), Tail(elems))
    ELSE IF Append(cur, Head(elems)) \in DOMAIN fs.files
    THEN [err |-> "ENOTDIR", dir |-> cur]
    ELSE [err |-> "ENOENT", dir |-> cur]

\* Where a name to be created lies: [err, path].  The name of an existing
\* directory (".", "..", "/", "a/..") gives "EXIST".
Locate(fs, name) ==
    LET elems == Elements(name)
        last == elems[Len(elems)]
        up == walk(fs, StartDir(fs, name), SubSeq(elems, 1, Len(elems) - 1))
    IN  IF name = <<>> THEN [err |-> "ENOENT", path |-> <<>>]
        ELSE IF elems = <<>> THEN [err |-> "EXIST", path |-> <<>>]
        ELSE IF up.err # NoErr THEN [err |-> up.err, path |-> <<>>]
        ELSE IF last \in {Dot, DotDot} THEN [err |-> "EXIST", path |-> <<>>]
        ELSE IF Append(up.dir, last) \in fs.dirs
        THEN [err |-> "EXIST", path |-> Append(up.dir, last)]
        ELSE [err |-> NoErr, path |-> Append(up.dir, last)]

Logged(fs, op, node, path, err) ==
    [fs EXCEPT !.ops = @ + 1,
               !.log = Append(@, [op |-> op, node |-> node, cwd |-> fs.cwd,
                                  path |-> path, err |-> err])]

\* os.Mkdir(name, 0755) made for tree node `node`: [fs, err].  The faultAt-th
\* call of Mkdir or WriteFile fails for a reason of the machine's (EIO).
Mkdir(fs, node, name, faultAt) ==
    LET at == Locate(fs, name)
        err == IF fs.ops + 1 = faultAt THEN "EIO"
               ELSE IF at.err = "EXIST" THEN "EEXIST"
               ELSE IF at.err # NoErr THEN at.err
               ELSE IF at.path \in DOMAIN fs.files THEN "EEXIST"
               ELSE NoErr
        done == IF err = NoErr THEN [fs EXCEPT !.dirs = @ \cup {at.path}] ELSE fs
    IN  [fs |-> Logged(done, "mkdir", node, IF err = NoErr THEN at.path ELSE <<>>, err),
         err |-> err]

\* ioutil.WriteFile(name, content, 0644): [fs, err].
WriteFile(fs, node, name, content, faultAt) ==
    LET at == Locate(fs, name)
        err == IF fs.ops + 1 = faultAt THEN "EIO"
               ELSE IF at.err = "EXIST" THEN "EISDIR"
               ELSE at.err
        done == IF err = NoErr
                THEN [fs EXCEPT !.files =
                          [q \in DOMAIN @ \cup {at.path} |->
                               IF q = at.path THEN content ELSE @[q]]]
                ELSE fs
    IN  [fs |-> Logged(done, "write", node, IF err = NoErr THEN at.path ELSE <<>>, err),
         err |-> err]

\* os.Chdir(name), its error dropped as every caller drops it: the working
\* directory stays where it is when the name leads to no directory.
Chdir(fs, name) ==
    LET to == walk(fs, StartDir(fs, name), Elements(name))
    IN  IF name # <<>> /\ to.err = NoErr THEN [fs EXCEPT !.cwd = to.dir] ELSE fs

\* The absolute name of a directory.
RECURSIVE PathName(_)
PathName(dir) ==
    IF dir = <<>> THEN <<"/">>
    ELSE IF Len(dir) = 1 THEN <<"/">> \o dir[1]
    ELSE PathName(Parent(dir)) \o <<"/">> \o dir[Len(dir)]

AttrFileNames == <<<<"f">>, <<"g">>>>

Reverse(seq) == [i \in 1..Len(seq) |-> seq[Len(seq) + 1 - i]]

\* The value of an expression, for naming it: e is evaluated once in
\* Only({f(x) : x \in {e}}).
Only(S) == CHOOSE x \in S : TRUE

\* The loop of tree.SetAttrs over the attribute names in the order `names`:
\* [fs, err].
RECURSIVE setAttrsLoop(_, _, _, _, _)
setAttrsLoop(fs, t, names, err, faultAt) ==
    IF names = <<>> THEN [fs |-> fs, err |-> err]
    ELSE Only({IF w.err # NoErr
               THEN w
               ELSE setAttrsLoop(w.fs, t, Tail(names), w.err, faultAt) :
                   w \in {WriteFile(fs, t, Head(names), tree[t].attrs[Head(names)],
                                    faultAt)}})

\* tree.SetAttrs.  A map is ranged over in an order of the runtime's choice:
\* rev[t] tells whether node t's attributes are taken in reverse.
SetAttrs(fs, t, rev, faultAt) ==
    LET inMap(name) == name \in DOMAIN tree[t].attrs
        names == SelectSeq(IF rev[t] THEN Reverse(AttrFileNames) ELSE AttrFileNames,
                           inMap)
    IN  setAttrsLoop(fs, t, names, NoErr, faultAt)

RECURSIVE Create(_, _, _, _)
RECURSIVE createItems(_, _, _, _, _)

\* creator.createItem: chdir into the directory, create the node there, and
\* chdir to "..".
createItem(fs, st, rev, faultAt) ==
    Only({[fs |-> Chdir(r.fs, DotDot), err |-> r.err] :
              r \in {Create(Only({Chdir(fs, tree[st].name)}), st, rev, faultAt)}})

\* The loop of creator.createItems over items, err being the error variable
\* of the loop: a failing Mkdir ends it, a failing createItem does not.
createItems(fs, items, err, rev, faultAt) ==
    IF items = <<>> THEN [fs |-> fs, err |-> err]
    ELSE Only({IF m.err # NoErr
               THEN m
               ELSE Only({createItems(c.fs, Tail(items), c.err, rev, faultAt) :
                              c \in {createItem(m.fs, Head(items), rev, faultAt)}}) :
                   m \in {Mkdir(fs, Head(items), tree[Head(items)].name, faultAt)}})

\* tree.Create, which is creator.Create.
Create(fs, t, rev, faultAt) ==
    Only({IF a.err # NoErr
          THEN a
          ELSE createItems(a.fs, tree[t].items, NoErr, rev, faultAt) :
              a \in {SetAttrs(fs, t, rev, faultAt)}})

InitialDirs(hasBase) == {<<>>, OldWd} \cup (IF hasBase THEN {BaseDir} ELSE {})

\* FakeSysfs.Setup from working directory OldWd: [fs, err].
SetupResult(hasBase, getwdFails, rev, faultAt) ==
    LET fs0 == [dirs |-> InitialDirs(hasBase), files |-> <<>>, cwd |-> OldWd,
                log |-> <<>>, ops |-> 0]
        oldWd == PathName(fs0.cwd)
    IN  IF getwdFails THEN [fs |-> fs0, err |-> "ENOENT"]
        ELSE Only({[fs |-> Chdir(r.fs, oldWd), err |-> r.err] :
                       r \in {Create(Only({Chdir(fs0, PathName(BaseDir))}), 1, rev,
                                     faultAt)}})

NodeNames == {<<"a">>, <<"b">>, <<"a", "/", "b">>, <<".", ".", "/", "x">>}
NodeAttrs ==
    {<<>>,
     (<<"f">> :> <<"1">>),
     (<<"f">> :> <<"1">>) @@ (<<"g">> :> <<"2">>)}

\* NewTree(name, attrs)
NewTree(name, attrs) == [name |-> name, attrs |-> attrs, items |-> <<>>]

\* tree.Add on node t of a tree: the tree with the new node as t's last item.
TreeAdd(tr, t, name, attrs) ==
    Append([tr EXCEPT ![t].items = Append(@, Len(tr) + 1)], NewTree(name, attrs))

\* FakeSysfs.AddTree(entries...): a chain of nodes from the root down.
RECURSIVE addTreeFrom(_, _, _)
addTreeFrom(tr, pos, entries) ==
    IF entries = <<>> THEN tr
    ELSE addTreeFrom(TreeAdd(tr, pos, Head(entries), <<>>), Len(tr) + 1, Tail(entries))

\* NewFakeSysfs(base)
FSInit ==
    /\ tree = <<NewTree(RootName, <<>>)>>
    /\ baseExists \in BOOLEAN
    /\ setup = NoneCalled

Add ==
    /\ ~setup.called
    /\ Len(tree) < MaxTreeNodes
    /\ \E t \in 1..Len(tree), name \in NodeNames, attrs \in NodeAttrs :
         tree' = TreeAdd(tree, t, name, attrs)
    /\ UNCHANGED <<baseExists, setup, distVars, pciVars>>

AddTree ==
    /\ ~setup.called
    /\ \E n \in 1..(MaxTreeNodes - Len(tree)) :
         \E entries \in [1..n -> NodeNames] :
            tree' = addTreeFrom(tree, 1, entries)
    /\ UNCHANGED <<baseExists, setup, distVars, pciVars>>

Setup ==
    /\ ~setup.called
    /\ \E getwdFails \in BOOLEAN, faultAt \in 0..MaxFaultAt :
         \E rev \in [1..Len(tree) -> BOOLEAN] :
            /\ \A t \in 1..Len(tree) :
                 rev[t] => Cardinality(DOMAIN tree[t].attrs) > 1
            /\ LET r == SetupResult(baseExists, getwdFails, rev, faultAt)
               IN  setup' = [called |-> TRUE, err |-> r.err, log |-> r.fs.log,
                             dirs |-> r.fs.dirs, files |-> r.fs.files,
                             cwd |-> r.fs.cwd, getwdFailed |-> getwdFails]
    /\ UNCHANGED <<tree, baseExists, distVars, pciVars>>

FSNext == Add \/ AddTree \/ Setup

(***************************************************************************)
(* Specifications: one per package, the other packages' state at rest      *)
(***************************************************************************)
DistIdle ==
    /\ online = [err |-> FALSE, Online |-> <<>>]
    /\ distanceFile = <<>>
    /\ dist = NoneCalled
    /\ between = NoneCalled

PCIIdle ==
    /\ devDirErr = FALSE
    /\ devices = <<>>
    /\ edits = 0
    /\ pci = NoneCalled
    /\ perNUMA = NoneCalled

FSIdle ==
    /\ tree = <<NewTree(RootName, <<>>)>>
    /\ baseExists = TRUE
    /\ setup = NoneCalled

DistancesInit == DistInit /\ PCIIdle /\ FSIdle
PCIDevicesInit == DistIdle /\ PCIInit /\ FSIdle
FakeSysfsInit == DistIdle /\ PCIIdle /\ FSInit

SpecDistances == DistancesInit /\ [][DistNext]_vars
SpecPCI == PCIDevicesInit /\ [][PCINext]_vars
SpecFakeSysfs == FakeSysfsInit /\ [][FSNext]_vars

(***************************************************************************)
(* Distances: properties                                                   *)
(***************************************************************************)
OnlineSet == {online.Online[i] : i \in 1..Len(online.Online)}
NumOnline == Len(online.Online)
Built == dist.called /\ ~dist.d.isNil

\* The enumeration position of an online node.
PositionOf(node) == CHOOSE i \in 1..NumOnline : online.Online[i] = node

\* A token that is an integer: an optional sign, then one decimal digit or
\* more, the value within the range of int.
IsIntegerToken(t) ==
    LET body == IF t # <<>> /\ Head(t) \in {"+", "-"} THEN Tail(t) ELSE t
    IN  /\ body # <<>>
        /\ \A i \in 1..Len(body) : IsDigit(body[i], 10)
        /\ Atoi(t).err # ErrRange

TokensOf(node) == Split(distanceFile[node].data, " ")

\* The content of a node's distance file is N integers, single-spaced.
GoodDistanceFile(node) ==
    /\ ~distanceFile[node].err
    /\ Len(TokensOf(node)) = NumOnline
    /\ \A j \in 1..NumOnline : IsIntegerToken(TokensOf(node)[j])

AllReadable == \A n \in OnlineSet : ~distanceFile[n].err

\* The integer a token stands for.
TokenValue(t) == Atoi(t).val

\* C1: for every Distances built over any ordered set of online nodes and
\* every pair (from, to) of online nodes, BetweenNodes(from, to) returns,
\* without error or crash, the entry read for node `from` at the enumeration
\* position of node `to`.
C1_BetweenNodesByPosition ==
    (Built /\ between.called /\ between.from \in OnlineSet /\ between.to \in OnlineSet)
        => /\ between.res.kind = "ok"
           /\ between.res.val =
                  TokenValue(TokensOf(between.from)[PositionOf(between.to)])

\* C2: BetweenNodes(from, to) returns an error exactly when from or to is not
\* in the online-node set recorded at construction (which is the set of the
\* online nodes); the error then names from when from is not online, and to
\* otherwise; such a call neither panics nor reports a distance.
C2_ErrorIffNotOnline ==
    between.called =>
        /\ dist.d.onlineNodes = OnlineSet
        /\ (between.res.kind = "error")
               <=> (between.from \notin OnlineSet \/ between.to \notin OnlineSet)
        /\ between.from \notin OnlineSet
               => between.res = [kind |-> "error", val |-> -1, node |-> between.from]
        /\ (between.from \in OnlineSet /\ between.to \notin OnlineSet)
               => between.res = [kind |-> "error", val |-> -1, node |-> between.to]

\* C2 witness: a query with two different ids, neither of them online, on a
\* table of two nodes.
C2_Witness ==
    /\ between.called
    /\ NumOnline = 2
    /\ between.from \notin OnlineSet
    /\ between.to \notin OnlineSet
    /\ between.from # between.to

\* C3 as stated: with every distance file readable, construction succeeds iff
\* every file is N integers; ANY file with a token count other than N makes
\* it fail with a count-mismatch error; any token that does not parse makes
\* it fail; a failure returns no Distances.
C3_AsStated ==
    (dist.called /\ ~online.err /\ AllReadable) =>
        /\ (dist.err = NoError) <=> (\A n \in OnlineSet : GoodDistanceFile(n))
        /\ (\E n \in OnlineSet : Len(TokensOf(n)) # NumOnline)
               => dist.err.kind = "count mismatch"
        /\ (\E n \in OnlineSet : \E j \in 1..Len(TokensOf(n)) :
                ~IsIntegerToken(TokensOf(n)[j]))
               => dist.err # NoError
        /\ dist.err # NoError => dist.d = NilDistances

\* The first online node, in enumeration order, whose file is unreadable or
\* is not N integers (0: there is none).
FirstBadPosition ==
    IF \A n \in OnlineSet : GoodDistanceFile(n) THEN 0
    ELSE CHOOSE i \in 1..NumOnline :
             /\ ~GoodDistanceFile(online.Online[i])
             /\ \A k \in 1..(i - 1) : GoodDistanceFile(online.Online[k])

\* C3 amended: construction succeeds iff every online node's file is readable
\* and is N integers, and the table then holds, per enumeration position, the
\* integers of that node's file; otherwise it returns no Distances and the
\* error of the FIRST failing node in enumeration order: the read error, or a
\* count-mismatch error (with the count found and N) when that node's token
\* count differs from N, or else the parse error.
C3_FirstFailureDecides ==
    (dist.called /\ ~online.err) =>
        LET p == FirstBadPosition
            bad == online.Online[p]
        IN  /\ (dist.err = NoError) <=> (p = 0)
            /\ p = 0 =>
                 /\ ~dist.d.isNil
                 /\ dist.d.onlineNodes = OnlineSet
                 /\ Len(dist.d.byNode) = NumOnline
                 /\ \A i \in 1..NumOnline :
                      dist.d.byNode[i] =
                          [j \in 1..NumOnline |->
                               TokenValue(TokensOf(online.Online[i])[j])]
            /\ p # 0 =>
                 /\ dist.d = NilDistances
                 /\ distanceFile[bad].err => dist.err.kind = "read"
                 /\ (~distanceFile[bad].err /\ Len(TokensOf(bad)) # NumOnline)
                        => dist.err = CountError(Len(TokensOf(bad)), NumOnline)
                 /\ (~distanceFile[bad].err /\ Len(TokensOf(bad)) = NumOnline)
                        => dist.err.kind \in {ErrSyntax, ErrRange}

\* C3 witness: two online nodes, the first file good, the second with a wrong
\* token count: construction failed with the count-mismatch error.
C3_Witness ==
    /\ dist.called
    /\ NumOnline = 2
    /\ GoodDistanceFile(online.Online[1])
    /\ ~distanceFile[online.Online[2]].err
    /\ Len(TokensOf(online.Online[2])) = 3
    /\ dist.err = CountError(3, 2)
    /\ dist.d = NilDistances

(***************************************************************************)
(* PCI discovery: properties                                               *)
(***************************************************************************)
Present(f) == f.kind # "absent"
IsLink(f) == f.kind \in {"symlink", "dangling", "loop"}

\* The file is readable and its content, surrounding space apart, is an
\* integer (decimal for Atoi; with an optional base prefix for the ids).
IsIntContent(f) == f.kind = "file" /\ Atoi(TrimSpace(f.data)).err = NoErr
IntContent(f) == Atoi(TrimSpace(f.data)).val
IsHexContent(f) == f.kind = "file" /\ ParseInt(TrimSpace(f.data), 0, 64).err = NoErr

\* A stat that fails with an error other than not-exist.
StatFails(f) == f.kind = "loop"

RequiredFiles == <<"class", "vendor", "device">>
CheckedFiles == <<"sriov_numvfs", "physfn", "class", "vendor", "device">>

FileFails(entry, file) ==
    IF file \in {"sriov_numvfs", "physfn"}
    THEN StatFails(entry[file])
    ELSE ~IsHexContent(entry[file])

EntryFails(entry) == \E k \in 1..Len(CheckedFiles) : FileFails(entry, CheckedFiles[k])

FirstFailingFile(entry) ==
    CheckedFiles[CHOOSE k \in 1..Len(CheckedFiles) :
                     /\ FileFails(entry, CheckedFiles[k])
                     /\ \A j \in 1..(k - 1) : ~FileFails(entry, CheckedFiles[j])]

FirstFailingEntry ==
    IF \A i \in 1..Len(devices) : ~EntryFails(devices[i]) THEN 0
    ELSE CHOOSE i \in 1..Len(devices) :
             /\ EntryFails(devices[i])
             /\ \A j \in 1..(i - 1) : ~EntryFails(devices[j])

\* The collection holds one device per directory entry, in listing order,
\* each with the entry's name as its address.
OnePerEntry ==
    /\ ~pci.isNil
    /\ pci.err = PCINoError
    /\ Len(pci.Items) = Len(devices)
    /\ \A i \in 1..Len(devices) : pci.Items[i].address = devices[i].name

NoCollection == pci.isNil /\ pci.Items = <<>> /\ pci.err # PCINoError

\* C4 as stated: the directory being listed, NewPCIDevices returns an error
\* and no collection if some entry's class, vendor or device is missing,
\* unreadable or no integer, and OTHERWISE a collection of one device per
\* entry, in listing order, its address the entry name.
C4_AsStated ==
    (pci.called /\ ~devDirErr) =>
        IF \E i \in 1..Len(devices) : \E k \in 1..3 :
               ~IsHexContent(devices[i][RequiredFiles[k]])
        THEN NoCollection
        ELSE OnePerEntry

\* C4 amended: NewPCIDevices is all-or-nothing.  If the directory cannot be
\* listed, or for some entry the stat of sriov_numvfs or physfn fails with an
\* error other than not-exist, or class, vendor or device is missing,
\* unreadable or no integer, it returns no collection and the first such
\* error (entries in listing order; within an entry sriov_numvfs, physfn,
\* class, vendor, device), however many earlier entries were read;
\* otherwise it returns one device per entry, in listing order, its address
\* the entry name.
C4_AllOrNothing ==
    pci.called =>
        LET p == FirstFailingEntry
        IN  IF devDirErr THEN NoCollection
            ELSE IF p # 0
            THEN /\ NoCollection
                 /\ pci.err.address = devices[p].name
                 /\ pci.err.file = FirstFailingFile(devices[p])
            ELSE OnePerEntry

\* C4 witness: the first entry reads well, the second has no vendor file, and
\* discovery returned that error and no collection.
C4_Witness ==
    /\ pci.called
    /\ Len(devices) >= 2
    /\ ~EntryFails(devices[1])
    /\ devices[2].vendor = Absent
    /\ NoCollection
    /\ pci.err = PCIError("ENOENT", devices[2].name, "vendor")

\* C5: a numa_node file whose content is no number makes NewPCIDevices
\* return an error and no collection; a content of -1 is stored as node -1.
C5_MalformedNumaNodeFails ==
    pci.called =>
        /\ (\E i \in 1..Len(devices) :
               /\ devices[i].numa_node.kind = "file"
               /\ ~IsIntContent(devices[i].numa_node))
             => NoCollection
        /\ ~pci.isNil =>
             \A i \in 1..Len(devices) :
                 (IsIntContent(devices[i].numa_node)
                      /\ IntContent(devices[i].numa_node) = NUMANodeUnknown)
                     => pci.Items[i].numaNode = NUMANodeUnknown

\* C6: for every discovered device, IsPhysFn is true exactly when the
\* directory holds sriov_numvfs; NumVFS is its content when that is an
\* integer, 0 when it is present but does not parse, and 0 when it is absent.
C6_PhysFnAndNumVFS ==
    (pci.called /\ ~pci.isNil) =>
        \A i \in 1..Len(pci.Items) :
            LET f == devices[i].sriov_numvfs
                d == pci.Items[i]
            IN  /\ d.IsPhysFn <=> Present(f)
                /\ (Present(f) /\ IsIntContent(f)) => d.NumVFS = IntContent(f)
                /\ (Present(f) /\ ~IsIntContent(f)) => d.NumVFS = 0
                /\ ~Present(f) => d.NumVFS = 0

\* C7: for every discovered device, a physfn symbolic link makes it a virtual
\* function whose ParentFn is the last element of the link target, whether or
\* not the target exists; without physfn it is none and ParentFn is empty.
C7_VirtFnAndParent ==
    (pci.called /\ ~pci.isNil) =>
        \A i \in 1..Len(pci.Items) :
            LET f == devices[i].physfn
                d == pci.Items[i]
                elems == Elements(f.data)
            IN  /\ IsLink(f) => (d.IsVFn /\ d.ParentFn = elems[Len(elems)])
                /\ ~Present(f) => (~d.IsVFn /\ d.ParentFn = <<>>)

RECURSIVE SumOfLens(_, _)
SumOfLens(g, keys) ==
    IF keys = {} THEN 0
    ELSE LET k == CHOOSE x \in keys : TRUE
         IN  Len(g[k]) + SumOfLens(g, keys \ {k})

\* C8: PerNUMA partitions the collection by NUMANode(): its keys are the
\* nodes of the devices (-1 as any other), each group is the devices of its
\* node in the collection's order (so none is empty or holds another node's
\* device), every device is in exactly one place of one group, and the group
\* sizes add up to the size of the collection.
C8_PerNUMAPartitions ==
    perNUMA.called =>
        LET g == perNUMA.groups
            Items == pci.Items
        IN  /\ DOMAIN g = {Items[i].numaNode : i \in 1..Len(Items)}
            /\ \A k \in DOMAIN g :
                 /\ g[k] # <<>>
                 /\ g[k] = SelectSeq(Items, LAMBDA d : d.numaNode = k)
            /\ \A i \in 1..Len(Items) :
                 Cardinality({kj \in {<<k, j>> : k \in DOMAIN g, j \in 1..Len(Items)} :
                                 /\ kj[2] <= Len(g[kj[1]])
                                 /\ g[kj[1]][kj[2]] = Items[i]}) = 1
            /\ SumOfLens(g, DOMAIN g) = Len(Items)

\* C8 witness: four devices on nodes 0, 0, 1, -1 grouped as 0:2, 1:1, -1:1.
C8_Witness ==
    /\ perNUMA.called
    /\ [i \in 1..Len(pci.Items) |-> pci.Items[i].numaNode] = <<0, 0, 1, -1>>
    /\ DOMAIN perNUMA.groups = {0, 1, -1}
    /\ Len(perNUMA.groups[0]) = 2
    /\ Len(perNUMA.groups[1]) = 1
    /\ Len(perNUMA.groups[-1]) = 1

(***************************************************************************)
(* Fake sysfs: properties                                                  *)
(***************************************************************************)
\* The directory a path name means from dir, by the names alone.
RECURSIVE joinElems(_, _)
joinElems(dir, elems) ==
    IF elems = <<>> THEN dir
    ELSE IF Head(elems) = Dot THEN joinElems(dir, Tail(elems))
    ELSE IF Head(elems) = DotDot THEN joinElems(Parent(dir), Tail(elems))
    ELSE joinElems(Append(dir, Head(elems)), Tail(elems))

ParentOf(t) ==
    CHOOSE q \in 1..Len(tree) : \E k \in 1..Len(tree[q].items) : tree[q].items[k] = t

\* The base joined with the names of a node's ancestors (the root excluded)
\* and its own.
RECURSIVE NodeDir(_)
NodeDir(t) ==
    IF t = 1 THEN BaseDir
    ELSE joinElems(NodeDir(ParentOf(t)), Elements(tree[t].name))

\* C9: a failing Mkdir or WriteFile is the last one Setup makes, and Setup
\* returns its error.
C9_AbortsAtFirstFailure ==
    setup.called =>
        \A i \in 1..Len(setup.log) :
            setup.log[i].err # NoErr
                => (i = Len(setup.log) /\ setup.err = setup.log[i].err)

\* C10: for any tree built by Add and AddTree, Setup (the base directory
\* being there) creates directories and files under the base only; it makes
\* every directory from the node's parent directory and writes every file
\* from the node's own; it never creates the root; and when it reports
\* success each node other than the root is a directory at the base joined
\* with its ancestors' names and its own, holding its attribute files with
\* their contents.
C10_MirrorsTreeUnderBase ==
    (setup.called /\ baseExists /\ ~setup.getwdFailed) =>
        /\ \A d \in setup.dirs \ InitialDirs(TRUE) : IsUnder(BaseDir, d)
        /\ \A f \in DOMAIN setup.files : IsUnder(BaseDir, f)
        /\ Append(BaseDir, RootName) \notin setup.dirs
        /\ \A i \in 1..Len(setup.log) :
             LET e == setup.log[i]
             IN  e.cwd = IF e.op = "mkdir" THEN NodeDir(ParentOf(e.node))
                         ELSE NodeDir(e.node)
        /\ setup.err = NoErr =>
             \A t \in 2..Len(tree) :
                 /\ NodeDir(t) \in setup.dirs
                 /\ \A a \in DOMAIN tree[t].attrs :
                      /\ Append(NodeDir(t), a) \in DOMAIN setup.files
                      /\ setup.files[Append(NodeDir(t), a)] = tree[t].attrs[a]

====
